---- MODULE Spec2Model ----
(***************************************************************************)
(* Resilient resource-access core of the Ghost MCP server:                 *)
(*   - LRUCache                         (resources/ResourceManager)        *)
(*   - CircuitBreaker, retryWithBackoff (errors/index)                     *)
(*   - handleApiRequest                 (services/ghostServiceImproved)    *)
(*   - ResourceSubscriptionManager      (resources/ResourceManager)        *)
(* Each component has its own specification over the shared variables:     *)
(* SpecCache, SpecBreaker, SpecRetry, SpecApi, SpecSub, SpecFetch, and     *)
(* SpecPure for the stateless functions.                                   *)
(***************************************************************************)
EXTENDS Integers, Sequences, FiniteSets, TLC

VARIABLES
  now,          \* Date.now(), in ms
  \* ---- LRUCache fields
  maxSize,      \* this.maxSize
  ttl,          \* this.ttl
  cache,        \* this.cache : key -> [value, expiry]
  accessOrder,  \* this.accessOrder
  \* ---- LRUCache history
  mru,          \* the stored keys by true recency of access, oldest first
  ev,           \* the eviction made by the operation just done, if it was a set,
                \* and the key it dropped as expired, if it was a get
  born,         \* per stored key, the set that stored it: [value, at, ttl]
  \* ---- CircuitBreaker (ghostCircuitBreaker) fields
  breaker,      \* [state, failureCount, lastFailureTime, nextAttempt]
  \* ---- the callers of CircuitBreaker.execute, retryWithBackoff, handleApiRequest
  proc,         \* per caller, where its call stands
  \* ---- CircuitBreaker history
  streak,       \* failures in a row since the breaker was CLOSED with
                \* failureCount 0 (at most failureThreshold); -1 when not counting
  failedAt,     \* time of the latest failure of a wrapped call
  \* ---- ResourceSubscriptionManager fields
  subscriptions,    \* the ids in this.subscriptions
  subscription,     \* the subscription objects ever made: id -> [uri, lastValue, ..]
  pollingIntervals, \* this.pollingIntervals: id -> interval of its timer
  nextId,           \* the next id subscribe hands out
  inflight,         \* per subscription object, its polls awaiting their fetch
  remote,           \* the resources as they are upstream
  thrown,           \* what the last subscribe or unsubscribe threw
  \* ---- ResourceSubscriptionManager history
  events,           \* per subscription object, the callbacks the operation
                    \* just done made to it
  notified,         \* the (uri, data) of the notifySubscribers call just done
  server,           \* the server process: running, closing (in shutdown), exited
  returned,         \* the id subscribe just returned, NoId after any other step
  \* ---- ResourceManager.fetchResource and batchFetch calls
  fetch,            \* per caller, where its fetchResource call stands
  batch,            \* the batchFetch call: its members, results and errors
  \* ---- the stateless functions: ResourceURIParser.parse, fetchPosts'
  \* ---- request building, ErrorHandler.getRetryDelay
  call              \* the call just made: the function, its input, its output

cacheVars == <<maxSize, ttl, cache, accessOrder, mru, ev, born>>

execVars == <<breaker, proc, streak, failedAt>>

subVars == <<subscriptions, subscription, pollingIntervals, nextId, inflight,
             remote, thrown, events, notified, server, returned>>

\* the fetches ResourceManager has under way
fetchVars == <<fetch, batch, call>>

vars == <<now, cacheVars, execVars, subVars, fetchVars>>

----------------------------------------------------------------------------
(* Bounds of the model *)

MaxCacheSize == 2      \* largest maxSize a cache is constructed with
MaxOrderLen == 3       \* cap on the length of accessOrder
MaxCacheTime == 120000 \* the cache clock stops here
MaxTime == 130000      \* the clock of the breaker's direct callers stops here
MaxExecTime == 6000    \* the clock of the executor's callers stops here
MaxFailures == 7       \* the breaker's failureCount is not driven beyond this
MaxInflight == 1       \* polls of one subscription awaiting their fetch
MaxFetchTime == 300001 \* the clock of the fetches stops here

(* Program constants *)

DefaultTTL == 300000    \* LRUCache constructor default, ResourceManager's cache
CollectionTTL == 60000  \* TTL passed for collection entries
FailureThreshold == 5   \* ghostCircuitBreaker's failureThreshold
ResetTimeout == 60000   \* ghostCircuitBreaker's resetTimeout
DefaultMaxAttempts == 3 \* retryWithBackoff: options.maxAttempts || 3
DefaultMaxRetries == 3  \* handleApiRequest: config.maxRetries ?? 3
BaseDelay == 1000       \* getRetryDelay: baseDelay
MaxDelay == 30000       \* getRetryDelay: maxDelay

\* a JavaScript value: null, or an object as its properties in insertion order
Null == [type |-> "null", pairs |-> <<>>]

Obj(pairs) == [type |-> "object", pairs |-> pairs]

\* JSON.stringify(value): the text, as the properties in the order they are held
Stringify(value) ==
  IF value.type = "null" THEN << <<"null">> >>
  ELSE << <<"{">> >> \o value.pairs \o << <<"}">> >>

\* if (value): null is falsy, every object is truthy
Truthy(value) == value.type # "null"

\* no key
NoKey == <<>>

\* ev when the operation just done evicted no stored key
NoEvict == [key |-> NoKey, lru |-> NoKey, fresh |-> FALSE, expired |-> NoKey]

Keys == { <<"post", "id", "a">>, <<"post", "id", "b">>, <<"tag", "id", "a">> }

V1 == Obj(<< <<"a", "1">>, <<"b", "2">> >>)

V2 == Obj(<< <<"a", "2">>, <<"b", "2">> >>)

\* V1 with its properties in the other order
V1Reordered == Obj(<< <<"b", "2">>, <<"a", "1">> >>)

Values == {V1, V2}

\* what the upstream returns for a resource
RemoteValues == {V1, V1Reordered, V2}

\* invalidate(pattern): <<>> stands for a falsy pattern (null, "")
Patterns == { <<>>, <<"post">>, <<"tag", ":", "id", ":", "a">> }

\* set(key, value, customTTL): 0 stands for a falsy customTTL (null, 0)
CustomTTLs == {0, CollectionTTL}

----------------------------------------------------------------------------
(* Helpers for Map and Array *)

MapDelete(m, k) == [x \in (DOMAIN m) \ {k} |-> m[x]]

\* the mutant of MapSet: an entry already there is kept
MapSetIfAbsent(m, k, v) ==
  [x \in (DOMAIN m) \cup {k} |-> IF x \in DOMAIN m THEN m[x] ELSE v]

MapSet(m, k, v) == [x \in (DOMAIN m) \cup {k} |-> IF x = k THEN v ELSE m[x]]

\* array.filter((k) => k !== key)
Without(s, key) == SelectSeq(s, LAMBDA k : k # key)

RECURSIVE Join(_, _)
\* array.join(sep): the string, as its parts and separators in order
Join(parts, sep) ==
  IF Len(parts) <= 1 THEN parts
  ELSE <<Head(parts), sep>> \o Join(Tail(parts), sep)

\* the cache key `${kind}:${identifierType}:${identifier}` as a string
KeyString(key) == Join(key, ":")

\* new RegExp(pattern).test(key) for a literal pattern: pattern occurs in key
RegexTest(pattern, key) ==
  LET str == KeyString(key)
  IN \E i \in 1..(Len(str) - Len(pattern) + 1) :
        SubSeq(str, i, i + Len(pattern) - 1) = pattern

----------------------------------------------------------------------------
(* LRUCache *)

\* the mutant of Expired: an entry is dropped at its expiry instant already
ExpiredInclusive(item, t) == t >= item.expiry

\* get(key), expired branch taken?  if (Date.now() > item.expiry)
Expired(item, t) == t > item.expiry

\* the store with its history, as one value
Store == [cache |-> cache, accessOrder |-> accessOrder, mru |-> mru,
          ev |-> ev, born |-> born]

\* the store becomes st
Becomes(st) ==
  /\ cache' = st.cache
  /\ accessOrder' = st.accessOrder
  /\ mru' = st.mru
  /\ ev' = st.ev
  /\ born' = st.born

\* history b restricted to the keys of store c
Surviving(b, c) == [k \in (DOMAIN c) \cap (DOMAIN b) |-> b[k]]

\* what get(key) returns at time t
GetResultOn(st, key, t) ==
  IF key \notin DOMAIN st.cache THEN Null
  ELSE IF Expired(st.cache[key], t) THEN Null
  ELSE st.cache[key].value

GetResult(key) == GetResultOn(Store, key, now)

\* what get(key) does to the store at time t
GetOn(st, key, t) ==
  IF key \notin DOMAIN st.cache
  THEN [st EXCEPT !.ev = NoEvict]
  ELSE IF Expired(st.cache[key], t)
  THEN [cache |-> MapDelete(st.cache, key),
        accessOrder |-> Without(st.accessOrder, key),
        mru |-> Without(st.mru, key),
        ev |-> [NoEvict EXCEPT !.expired = key],
        born |-> Surviving(st.born, MapDelete(st.cache, key))]
  ELSE [st EXCEPT !.accessOrder = Append(Without(st.accessOrder, key), key),
                  !.mru = Append(Without(st.mru, key), key),
                  !.ev = NoEvict]

CacheGet(key) ==
  /\ Becomes(GetOn(Store, key, now))
  /\ UNCHANGED <<now, maxSize, ttl, execVars, subVars, fetchVars>>

\* the mutant of LoopRuns: evicts only when over capacity
LoopRunsOffByOne(size, max, len) == size > max /\ len > 0

\* while (this.cache.size >= this.maxSize && this.accessOrder.length > 0)
LoopRuns(size, max, len) == size >= max /\ len > 0

RECURSIVE EvictOldest(_, _, _, _)
\* the eviction loop of set: shift the oldest key and delete it
EvictOldest(c, ord, out, max) ==
  IF LoopRuns(Cardinality(DOMAIN c), max, Len(ord))
  THEN EvictOldest(MapDelete(c, Head(ord)), Tail(ord),
                   IF Head(ord) \in DOMAIN c THEN Append(out, Head(ord)) ELSE out,
                   max)
  ELSE [cache |-> c, order |-> ord, evicted |-> out]

\* const ttl = customTTL || this.ttl
EffectiveTTL(customTTL, dflt) == IF customTTL = 0 THEN dflt ELSE customTTL

\* the model follows set only while accessOrder stays within MaxOrderLen
SetFits(st, max) ==
  Len(EvictOldest(st.cache, st.accessOrder, <<>>, max).order) < MaxOrderLen

\* what set(key, value, customTTL) does to the store at time t, for a cache
\* constructed with (max, dflt)
SetOn(st, key, value, customTTL, t, max, dflt) ==
  LET e == EvictOldest(st.cache, st.accessOrder, <<>>, max)
      gone == {e.evicted[i] : i \in 1..Len(e.evicted)}
  IN [cache |-> MapSet(e.cache, key,
                       [value |-> value,
                        expiry |-> t + EffectiveTTL(customTTL, dflt)]),
      accessOrder |-> Append(e.order, key),
      mru |-> Append(SelectSeq(st.mru, LAMBDA k : k \notin gone /\ k # key),
                     key),
      ev |-> IF e.evicted = <<>> THEN NoEvict
             ELSE [key |-> e.evicted[1], lru |-> Head(st.mru),
                   fresh |-> key \notin DOMAIN st.cache, expired |-> NoKey],
      born |-> MapSet(Surviving(st.born, e.cache), key,
                      [value |-> value, at |-> t,
                       ttl |-> IF customTTL > 0 THEN customTTL ELSE dflt])]

CacheSet(key, value, customTTL) ==
  /\ SetFits(Store, maxSize)
  /\ Becomes(SetOn(Store, key, value, customTTL, now, maxSize, ttl))
  /\ UNCHANGED <<now, maxSize, ttl, execVars, subVars, fetchVars>>

\* what invalidate(pattern) does to the store
InvalidateOn(st, pattern) ==
  LET hit == IF pattern = <<>> THEN DOMAIN st.cache
             ELSE {k \in DOMAIN st.cache : RegexTest(pattern, k)}
      kept == [k \in (DOMAIN st.cache) \ hit |-> st.cache[k]]
  IN [cache |-> kept,
      accessOrder |-> IF pattern = <<>> THEN <<>>
                      ELSE SelectSeq(st.accessOrder, LAMBDA k : k \notin hit),
      mru |-> SelectSeq(st.mru, LAMBDA k : k \notin hit),
      ev |-> NoEvict,
      born |-> Surviving(st.born, kept)]

CacheInvalidate(pattern) ==
  /\ Becomes(InvalidateOn(Store, pattern))
  /\ UNCHANGED <<now, maxSize, ttl, execVars, subVars, fetchVars>>

\* time passes between two cache operations
CacheTick ==
  /\ now + CollectionTTL <= MaxCacheTime
  /\ now' = now + CollectionTTL
  /\ ev' = NoEvict
  /\ UNCHANGED <<maxSize, ttl, cache, accessOrder, mru, born>>
  /\ UNCHANGED <<execVars, subVars, fetchVars>>

----------------------------------------------------------------------------
(* Error classes (errors/index) *)

NoTime == 0 - 1   \* a null timestamp

\* an error object: its class, code, statusCode, ghostStatusCode, retryAfter
\* and service ("" and 0 stand for undefined)
Err(cls, code, statusCode, ghostStatusCode, retryAfter, service) ==
  [cls |-> cls, code |-> code, statusCode |-> statusCode,
   ghostStatusCode |-> ghostStatusCode, retryAfter |-> retryAfter,
   service |-> service]

NoErr == Err("none", "", 0, 0, 0, "")

\* the result of a call that returned
Ok == Err("ok", "", 0, 0, 0, "")

ValidationError == Err("ValidationError", "VALIDATION_ERROR", 400, 0, 0, "")

RateLimitError(retryAfter) ==
  Err("RateLimitError", "RATE_LIMIT_EXCEEDED", 429, 0, retryAfter, "")

ExternalServiceError(service) ==
  Err("ExternalServiceError", "EXTERNAL_SERVICE_ERROR", 502, 0, 0, service)

\* a plain Error carrying a status and/or a system error code
PlainError(code, statusCode) == Err("Error", code, statusCode, 0, 0, "")

\* the code GhostAPIError's constructor sets for an upstream status
GhostCode(status) ==
  CASE status = 401 -> "GHOST_AUTH_ERROR"
    [] status = 404 -> "GHOST_NOT_FOUND"
    [] status = 422 -> "GHOST_VALIDATION_ERROR"
    [] status = 429 -> "GHOST_RATE_LIMIT"
    [] OTHER -> "EXTERNAL_SERVICE_ERROR"

\* the statusCode GhostAPIError's constructor sets for an upstream status
GhostStatus(status) ==
  CASE status = 401 -> 401
    [] status = 404 -> 404
    [] status = 422 -> 400
    [] status = 429 -> 429
    [] OTHER -> 502

GhostAPIError(status) ==
  Err("GhostAPIError", GhostCode(status), GhostStatus(status), status, 0,
      "Ghost API")

\* ErrorHandler.fromGhostError: statusCode = error.response?.status || error.statusCode
FromGhostError(error) == GhostAPIError(error.statusCode)

\* the error CircuitBreaker.execute throws while OPEN
CircuitOpenError == ExternalServiceError("Circuit breaker is OPEN")

\* an error thrown by the onRetry callback itself
OnRetryError == PlainError("ONRETRY", 0)

\* the class each error class extends
SuperClass(cls) ==
  CASE cls = "GhostAPIError" -> "ExternalServiceError"
    [] cls \in {"ValidationError", "RateLimitError", "ExternalServiceError"}
         -> "BaseError"
    [] OTHER -> "Error"

RECURSIVE InstanceOf(_, _)
\* error instanceof base
InstanceOf(cls, base) ==
  IF cls = base THEN TRUE
  ELSE IF cls = "Error" THEN FALSE
  ELSE InstanceOf(SuperClass(cls), base)

\* the mutant of IsRetryable: every error of the taxonomy is retried
IsRetryableAnyBaseError(error) ==
  \/ InstanceOf(error.cls, "BaseError")
  \/ error.code \in {"ECONNREFUSED", "ETIMEDOUT", "ECONNRESET"}

\* ErrorHandler.isRetryable
IsRetryable(error) ==
  IF InstanceOf(error.cls, "RateLimitError") THEN TRUE
  ELSE IF InstanceOf(error.cls, "ExternalServiceError") THEN TRUE
  ELSE IF InstanceOf(error.cls, "GhostAPIError")
       THEN error.ghostStatusCode \in {429, 502, 503, 504}
  ELSE error.code \in {"ECONNREFUSED", "ETIMEDOUT", "ECONNRESET"}

Min(a, b) == IF a <= b THEN a ELSE b

RECURSIVE Pow2(_)
\* Math.pow(2, n)
Pow2(n) == IF n <= 0 THEN 1 ELSE 2 * Pow2(n - 1)

\* the draws of Math.random() the executor is run with, in thousandths
Randoms == {0}

\* the mutant of HintDelay: the hinted delay is capped like the backoff
HintDelayCapped(retryAfter) == Min(retryAfter * 1000, MaxDelay)

\* getRetryDelay for a RateLimitError: error.retryAfter * 1000
HintDelay(retryAfter) == retryAfter * 1000

\* the mutant of BackoffDelay: the exponential delay without its cap
BackoffDelayUncapped(attempt) == BaseDelay * Pow2(attempt - 1)

\* getRetryDelay's delay before jitter:
\* Math.min(baseDelay * Math.pow(2, attempt - 1), maxDelay)
BackoffDelay(attempt) == Min(BaseDelay * Pow2(attempt - 1), MaxDelay)

\* ErrorHandler.getRetryDelay, with Math.random() = r / 1000:
\* Math.round(delay + r/1000 * 0.3 * delay)
GetRetryDelay(attempt, error, r) ==
  IF InstanceOf(error.cls, "RateLimitError") THEN HintDelay(error.retryAfter)
  ELSE LET delay == BackoffDelay(attempt)
       IN (delay * 10000 + r * 3 * delay + 5000) \div 10000

----------------------------------------------------------------------------
(* CircuitBreaker *)

NewBreaker == [state |-> "CLOSED", failureCount |-> 0,
               lastFailureTime |-> NoTime, nextAttempt |-> NoTime]

\* the mutant of StillOpen: the trial call is refused at nextAttempt itself
StillOpenInclusive(t, nextAttempt) == t <= nextAttempt

\* execute: if (Date.now() < this.nextAttempt)
StillOpen(t, nextAttempt) == t < nextAttempt

\* the mutant of Gate: a rejected call restarts the reset timeout
GateExtends(cb, t) ==
  IF cb.state = "OPEN"
  THEN IF StillOpen(t, cb.nextAttempt)
       THEN [admit |-> FALSE,
             breaker |-> [cb EXCEPT !.nextAttempt = t + ResetTimeout]]
       ELSE [admit |-> TRUE, breaker |-> [cb EXCEPT !.state = "HALF_OPEN"]]
  ELSE [admit |-> TRUE, breaker |-> cb]

\* execute, up to the call of fn: is the call admitted, and the breaker then
Gate(cb, t) ==
  IF cb.state = "OPEN"
  THEN IF StillOpen(t, cb.nextAttempt)
       THEN [admit |-> FALSE, breaker |-> cb]
       ELSE [admit |-> TRUE, breaker |-> [cb EXCEPT !.state = "HALF_OPEN"]]
  ELSE [admit |-> TRUE, breaker |-> cb]

OnSuccess(cb) ==
  [cb EXCEPT !.state = IF @ = "HALF_OPEN" THEN "CLOSED" ELSE @,
             !.failureCount = 0,
             !.lastFailureTime = NoTime]

\* the mutant of Tripped: opens one failure late
TrippedLate(count, threshold) == count > threshold

\* onFailure: if (this.failureCount >= this.failureThreshold)
Tripped(count, threshold) == count >= threshold

OnFailure(cb, t) ==
  LET n == cb.failureCount + 1
  IN IF Tripped(n, FailureThreshold)
     THEN [state |-> "OPEN", failureCount |-> n, lastFailureTime |-> t,
           nextAttempt |-> t + ResetTimeout]
     ELSE [cb EXCEPT !.failureCount = n, !.lastFailureTime = t]

----------------------------------------------------------------------------
(* The callers: CircuitBreaker.execute(fn), retryWithBackoff(fn, options),   *)
(* handleApiRequest(resource, action, data, options)                        *)

Procs == {"p1", "p2"}

\* what the wrapped function throws when it fails, per kind of call
ExecuteErrors == { PlainError("", 0) }

RetryErrors == { ValidationError, RateLimitError(2),
                 PlainError("ECONNRESET", 0) }

\* what the Ghost Admin API client throws: an upstream status, or a
\* connection failure without status
UpstreamErrors == { PlainError("", 404), PlainError("", 422),
                    PlainError("", 503), PlainError("ECONNREFUSED", 0) }

\* options.maxAttempts as passed to retryWithBackoff; 0 stands for absent
MaxAttemptsOptions == {0, 1, 2}

IdleProc ==
  [pc |-> "idle", kind |-> "none", op |-> NoErr, throws |-> FALSE,
   maxAttempts |-> 0, attempt |-> 0, gates |-> 0, calls |-> 0, delays |-> 0,
   wakeAt |-> NoTime, adm |-> "none", lastError |-> NoErr, result |-> NoErr]

\* is fn wrapped by ghostCircuitBreaker.execute
UsesBreaker(kind) == kind \in {"execute", "api"}

\* retryWithBackoff's catch block up to the setTimeout; a direct caller of
\* CircuitBreaker.execute just receives the error
Caught(pr, error, t, r) ==
  IF pr.kind = "execute" \/ pr.attempt = pr.maxAttempts \/ ~IsRetryable(error)
  THEN [pr EXCEPT !.pc = "done", !.lastError = error, !.result = error]
  ELSE [pr EXCEPT !.pc = "sleep", !.lastError = error,
                  !.wakeAt = t + GetRetryDelay(pr.attempt, error, r)]

\* one call of the (wrapped) function, up to its first suspension
BeginAttempt(pr, cb, t, r) ==
  IF UsesBreaker(pr.kind)
  THEN LET g == Gate(cb, t)
           entered == [pr EXCEPT !.gates = @ + 1]
       IN IF g.admit
          THEN [proc |-> [entered EXCEPT !.pc = "inflight", !.calls = @ + 1,
                                         !.adm = g.breaker.state],
                breaker |-> g.breaker]
          ELSE [proc |-> Caught(entered, CircuitOpenError, t, r),
                breaker |-> g.breaker]
  ELSE [proc |-> [pr EXCEPT !.pc = "inflight", !.calls = @ + 1],
        breaker |-> cb]

\* streak after a call entered the breaker
StreakAtGate(cb, cb2) ==
  IF cb.state = "OPEN" /\ cb2.state = "HALF_OPEN" THEN 0 - 1 ELSE streak

Begin(p, pr, r) ==
  LET b == BeginAttempt(pr, breaker, now, r)
  IN /\ proc' = [proc EXCEPT ![p] = b.proc]
     /\ breaker' = b.breaker
     /\ streak' = StreakAtGate(breaker, b.breaker)
     /\ UNCHANGED <<now, failedAt, cacheVars, subVars, fetchVars>>

\* a caller calls ghostCircuitBreaker.execute(fn)
StartExecute(p) ==
  /\ proc[p].pc = "idle"
  /\ \E e \in ExecuteErrors :
       Begin(p, [IdleProc EXCEPT !.kind = "execute", !.op = e,
                                 !.maxAttempts = 1, !.attempt = 1], 0)

\* a caller calls retryWithBackoff(fn, {maxAttempts, onRetry})
StartRetry(p) ==
  /\ proc[p].pc = "idle"
  /\ \E e \in RetryErrors, m \in MaxAttemptsOptions, th \in BOOLEAN :
       Begin(p, [IdleProc EXCEPT
                   !.kind = "retry", !.op = e, !.throws = th,
                   !.maxAttempts = IF m = 0 THEN DefaultMaxAttempts ELSE m,
                   !.attempt = 1], 0)

\* a caller calls handleApiRequest with the default config
StartApi(p) ==
  /\ proc[p].pc = "idle"
  /\ \E e \in UpstreamErrors, r \in Randoms :
       Begin(p, [IdleProc EXCEPT !.kind = "api", !.op = e,
                                 !.maxAttempts = DefaultMaxRetries,
                                 !.attempt = 1], r)

\* the function called returns
Succeed(p) ==
  LET pr == proc[p]
      cb2 == IF UsesBreaker(pr.kind) THEN OnSuccess(breaker) ELSE breaker
  IN /\ pr.pc = "inflight"
     /\ proc' = [proc EXCEPT ![p] = [pr EXCEPT !.pc = "done", !.result = Ok]]
     /\ breaker' = cb2
     /\ streak' = IF ~UsesBreaker(pr.kind) THEN streak
                  ELSE IF cb2.state = "CLOSED" THEN 0 ELSE 0 - 1
     /\ UNCHANGED <<now, failedAt, cacheVars, subVars, fetchVars>>

\* the function called throws: executeRequest translates what the API client
\* threw, the breaker counts the failure, retryWithBackoff catches the error
Fail(p) ==
  LET pr == proc[p]
      error == IF pr.kind = "api" THEN FromGhostError(pr.op) ELSE pr.op
  IN /\ pr.pc = "inflight"
     /\ UsesBreaker(pr.kind) => breaker.failureCount < MaxFailures
     /\ \E r \in Randoms :
          proc' = [proc EXCEPT ![p] = Caught(pr, error, now, r)]
     /\ IF UsesBreaker(pr.kind)
        THEN /\ breaker' = OnFailure(breaker, now)
             /\ streak' = IF streak < 0 THEN streak
                          ELSE Min(streak + 1, FailureThreshold)
             /\ failedAt' = now
        ELSE UNCHANGED <<breaker, streak, failedAt>>
     /\ UNCHANGED <<now, cacheVars, subVars, fetchVars>>

\* the backoff timer fires: onRetry(attempt, error), then the next attempt
Wake(p) ==
  LET pr == proc[p]
      slept == [pr EXCEPT !.delays = @ + 1, !.wakeAt = NoTime]
  IN /\ pr.pc = "sleep"
     /\ now >= pr.wakeAt
     /\ IF pr.throws
        THEN /\ proc' = [proc EXCEPT ![p] =
                           [slept EXCEPT !.pc = "done", !.result = OnRetryError]]
             /\ UNCHANGED <<now, breaker, streak, failedAt, cacheVars, subVars, fetchVars>>
        ELSE \E r \in Randoms :
               Begin(p, [slept EXCEPT !.attempt = @ + 1], r)

\* the caller has its result and may call again
Return(p) ==
  /\ proc[p].pc = "done"
  /\ proc' = [proc EXCEPT ![p] = IdleProc]
  /\ UNCHANGED <<now, breaker, streak, failedAt, cacheVars, subVars, fetchVars>>

\* the instants the clock may move to: the next timers and deadlines, or half
\* a resetTimeout ahead
NextTimes ==
  {now + ResetTimeout \div 2}
  \cup {proc[p].wakeAt : p \in {q \in Procs : proc[q].pc = "sleep"}}
  \cup {breaker.nextAttempt}

Tick(horizon) ==
  /\ \E t \in NextTimes : t > now /\ t <= horizon /\ now' = t
  /\ UNCHANGED <<execVars, cacheVars, subVars, fetchVars>>

TickBreaker == Tick(MaxTime)

TickExec == Tick(MaxExecTime)

----------------------------------------------------------------------------
(* ResourceSubscriptionManager *)

\* the ids subscribe hands out, in order
SubIds == {1, 2}

URIs == { <<"ghost", "post", "a">>, <<"ghost", "post">> }

\* the URIs notifyChange is called with: those subscribed to, one above
\* them, and one that is related to none
NotifyURIs == URIs \cup { <<"ghost">>, <<"ghost", "tag", "a">> }

\* options.pollingInterval as passed to subscribe; 0 stands for absent
PollingIntervals == {0, 1000}

\* the mutant of MatchesSubscription: only the changed URI itself matches
MatchesExactly(subscriptionURI, eventURI) == subscriptionURI = eventURI

\* matchesSubscription: equal, or one starts with the other
StartsWith(s, prefix) ==
  Len(prefix) <= Len(s) /\ SubSeq(s, 1, Len(prefix)) = prefix

MatchesSubscription(subscriptionURI, eventURI) ==
  \/ subscriptionURI = eventURI
  \/ StartsWith(subscriptionURI, eventURI)
  \/ StartsWith(eventURI, subscriptionURI)

\* subscription.callback({type, uri, data}) for the subscriptions in ids
Callback(ids, type, data) ==
  events' = [id \in DOMAIN events |->
               IF id \in ids THEN <<[type |-> type, data |-> data]>>
               ELSE <<>>]

\* returned when the operation just done was not subscribe
NoId == 0

\* notified when the operation just done was not notifySubscribers
NoNotify == [uri |-> <<>>, data |-> Null]

\* an operation that calls no callback
NoCallback == events' = [id \in DOMAIN events |-> <<>>]

\* the mutant of PollTarget: pollFunc reports to nobody
PollTargetNone(id) == {}

\* pollFunc calls the callback of the subscription object it closed over
PollTarget(id) == {id}

\* subscribe(uri, callback, {enablePolling, pollingInterval}); startPolling
\* makes the initial pollFunc() call and sets the interval
Subscribe(uri, enablePolling, pollingInterval) ==
  LET id == nextId
      interval == IF pollingInterval = 0 THEN 30000 ELSE pollingInterval
  IN /\ nextId \in SubIds
     /\ nextId' = nextId + 1
     /\ subscription' = [i \in (DOMAIN subscription) \cup {id} |->
                           IF i = id
                           THEN [uri |-> uri, lastValue |-> Null,
                                 enablePolling |-> enablePolling]
                           ELSE subscription[i]]
     /\ subscriptions' = subscriptions \cup {id}
     /\ events' = [i \in (DOMAIN events) \cup {id} |-> <<>>]
     /\ IF enablePolling
        THEN /\ pollingIntervals' =
                  [i \in (DOMAIN pollingIntervals) \cup {id} |->
                     IF i = id THEN interval ELSE pollingIntervals[i]]
             /\ inflight' = [i \in (DOMAIN inflight) \cup {id} |->
                               IF i = id THEN 1 ELSE inflight[i]]
        ELSE /\ pollingIntervals' = pollingIntervals
             /\ inflight' = [i \in (DOMAIN inflight) \cup {id} |->
                               IF i = id THEN 0 ELSE inflight[i]]
     /\ thrown' = NoErr /\ notified' = NoNotify /\ UNCHANGED server
     /\ returned' = id
     /\ UNCHANGED remote

NotFoundError == Err("NotFoundError", "NOT_FOUND", 404, 0, 0, "")

\* the mutant of Registered: unsubscribe finds a record for every id
RegisteredAlways(id) == TRUE

\* unsubscribe's lookup: this.subscriptions.get(subscriptionId) is a record
Registered(id) == id \in subscriptions

\* unsubscribe(subscriptionId): stopPolling, then delete
Unsubscribe(id) ==
  IF ~Registered(id)
  THEN /\ thrown' = NotFoundError /\ notified' = NoNotify /\ UNCHANGED server /\ returned' = NoId
       /\ NoCallback
       /\ UNCHANGED <<nextId, subscription, subscriptions, pollingIntervals,
                      inflight, remote>>
  ELSE /\ pollingIntervals' = MapDelete(pollingIntervals, id)
       /\ subscriptions' = subscriptions \ {id}
       /\ thrown' = NoErr /\ notified' = NoNotify /\ UNCHANGED server /\ returned' = NoId
       /\ NoCallback
       /\ UNCHANGED <<nextId, subscription, inflight, remote>>

\* the interval timer of a subscription fires: pollFunc starts a fetch
TimerFires(id) ==
  /\ id \in DOMAIN pollingIntervals
  /\ inflight[id] < MaxInflight
  /\ inflight' = [inflight EXCEPT ![id] = @ + 1]
  /\ thrown' = NoErr /\ notified' = NoNotify /\ UNCHANGED server /\ returned' = NoId
  /\ NoCallback
  /\ UNCHANGED <<nextId, subscription, subscriptions, pollingIntervals,
                 remote>>

\* a poll's fetch returns the resource as it is upstream
PollResolves(id) ==
  LET currentValue == remote[subscription[id].uri]
  IN /\ id \in DOMAIN inflight
     /\ inflight[id] > 0
     /\ inflight' = [inflight EXCEPT ![id] = @ - 1]
     /\ IF Stringify(currentValue) # Stringify(subscription[id].lastValue)
        THEN /\ subscription' =
                  [subscription EXCEPT ![id].lastValue = currentValue]
             /\ Callback(PollTarget(id), "update", currentValue)
        ELSE UNCHANGED subscription /\ NoCallback
     /\ thrown' = NoErr /\ notified' = NoNotify /\ UNCHANGED server /\ returned' = NoId
     /\ UNCHANGED <<nextId, subscriptions, pollingIntervals, remote>>

\* a poll's fetch fails
PollRejects(id) ==
  /\ id \in DOMAIN inflight
  /\ inflight[id] > 0
  /\ inflight' = [inflight EXCEPT ![id] = @ - 1]
  /\ Callback(PollTarget(id), "error", Null)
  /\ thrown' = NoErr /\ notified' = NoNotify /\ UNCHANGED server /\ returned' = NoId
  /\ UNCHANGED <<nextId, subscription, subscriptions, pollingIntervals, remote>>

\* notifySubscribers(uri, data, eventType), as notifyChange calls it
NotifySubscribers(uri, data) ==
  /\ Callback({id \in subscriptions :
                 MatchesSubscription(subscription[id].uri, uri)},
              "update", data)
  /\ thrown' = NoErr
  /\ notified' = [uri |-> uri, data |-> data]
  /\ UNCHANGED server /\ returned' = NoId
  /\ UNCHANGED <<nextId, subscription, subscriptions, pollingIntervals,
                 inflight, remote>>

\* the resource changes upstream, and with it the resources that hold it or
\* that it holds (a post and the collection of posts)
RemoteChange(uri, v) ==
  /\ remote[uri] # v
  /\ remote' = [u \in DOMAIN remote |->
                  IF StartsWith(u, uri) \/ StartsWith(uri, u) THEN v
                  ELSE remote[u]]
  /\ thrown' = NoErr /\ notified' = NoNotify /\ UNCHANGED server /\ returned' = NoId
  /\ NoCallback
  /\ UNCHANGED <<nextId, subscription, subscriptions, pollingIntervals,
                 inflight>>

------------------------------------------------------------
\* SIGINT/SIGTERM: shutdown clears the registry, then awaits the servers' close.
\* Client requests (subscribe, unsubscribe, notify) are served while the server
\* runs; timers and pending polls go on until the process exits.
Shutdown ==
  /\ server = "running"
  /\ server' = "closing" /\ returned' = NoId
  /\ subscriptions' = {}
  /\ thrown' = NoErr /\ notified' = NoNotify
  /\ NoCallback
  /\ UNCHANGED <<nextId, subscription, pollingIntervals, inflight, remote>>

\* shutdown's process.exit(0): the process ends, and its timers and pending
\* fetches with it
ProcessExit ==
  /\ server = "closing"
  /\ server' = "exited" /\ returned' = NoId
  /\ pollingIntervals' = << >>
  /\ inflight' = [id \in DOMAIN inflight |-> 0]
  /\ thrown' = NoErr /\ notified' = NoNotify
  /\ NoCallback
  /\ UNCHANGED <<nextId, subscription, subscriptions, remote>>

----------------
(* ResourceURIParser, ResourceFetcher, ResourceManager *)

\* new LRUCache(100, 300000)
ManagerCacheSize == 100

Fetchers == {1, 2}

\* the string that names an object's prototype accessor
ProtoKey == <<"__proto__">>

\* a single post, the posts collection, and a resource type no fetcher serves
FetchURIs == { <<"ghost", "post", "a">>, <<"ghost", "posts">>,
               <<"ghost", "page", "a">> }

\* strings that are no resource URI: one path segment, and a special scheme
\* with nothing after it ("http:")
MalformedURIs == { <<"ghost">>, <<"http:">> }

\* the schemes the URL parser requires a host for
SpecialSchemes == {"http:", "https:", "ws:", "wss:", "ftp:"}

\* new URL(uri, 'resource://') throws: the string is a special scheme without
\* a host
URLFails(uri) == Len(uri) = 1 /\ uri[1] \in SpecialSchemes

\* the TypeError new URL throws
InvalidURLError == Err("TypeError", "ERR_INVALID_URL", 0, 0, 0, "")

\* batchFetch(uris): the array uris of the request body, in its order
BatchInputs ==
  {<<>>} \cup {<<u>> : u \in FetchURIs \cup {ProtoKey}}
         \cup {p \in {<<u, v>> : u \in FetchURIs, v \in FetchURIs} :
                   p[1] # p[2] \/ p[1] = <<"ghost", "post", "a">>}

\* a thrown value that is no object (throw null)
ThrownNull == Err("null", "", 0, 0, 0, "")

TypeError == Err("TypeError", "", 0, 0, 0, "")

\* what the Ghost service rejects with
FetchErrors == { GhostAPIError(503), CircuitOpenError, ThrownNull }

\* ResourceURIParser.parse, for a URI without query and without typed identifier
Parse(uri) ==
  [namespace |-> uri[1], resourceType |-> uri[2],
   identifier |-> Join(SubSeq(uri, 3, Len(uri)), "/"),
   identifierType |-> "id",
   isCollection |-> Len(uri) = 2]

\* the kind of entry fetchResource routes a resource type to, "" for none
KindOf(resourceType) ==
  CASE resourceType \in {"post", "posts"} -> "post"
    [] resourceType \in {"tag", "tags"} -> "tag"
    [] OTHER -> ""

\* the cache key of fetchPost/fetchPosts, fetchTag/fetchTags
CacheKey(parsed) ==
  IF parsed.isCollection
  THEN <<KindOf(parsed.resourceType) \o "s", "{}">>
  ELSE <<KindOf(parsed.resourceType), parsed.identifierType>>
         \o parsed.identifier

\* the customTTL the fetcher passes to cache.set, 0 for none
FetchTTL(parsed) == IF parsed.isCollection THEN CollectionTTL ELSE 0

IdleFetch ==
  [pc |-> "idle", uri |-> <<>>, key |-> NoKey, ttl |-> 0, live |-> Null,
   upstream |-> 0, result |-> Null, error |-> NoErr]

\* call before any call of a stateless function
NoCall == [fn |-> "none"]

IdleBatch ==
  [pc |-> "idle", uris |-> <<>>, results |-> << >>, errors |-> << >>]

\* the value history holds as stored under key, not removed since, and
\* inside the TTL it was stored with
LiveEntry(st, key, t) ==
  IF key \in DOMAIN st.born /\ t <= st.born[key].at + st.born[key].ttl
  THEN st.born[key].value
  ELSE Null

\* a step of a fetch: it calls no subscription operation
SubQuiet ==
  /\ notified' = NoNotify
  /\ UNCHANGED <<subscriptions, subscription, pollingIntervals, nextId,
                 inflight, remote, thrown, events, server, returned>>

\* the mutant of CacheHit: the cached value is never used
CacheHitNever(cached) == FALSE

\* if (cached) return cached
CacheHit(cached) == Truthy(cached)

\* fetchResource(uri) up to its first suspension, on store st at time t:
\* parse, route, look the key up, and on a miss call the Ghost service
BeginFetchOn(st, uri, t) ==
  LET parsed == Parse(uri)
      key == CacheKey(parsed)
      called == [IdleFetch EXCEPT !.uri = uri]
  IN IF URLFails(uri)
     THEN [store |-> st,
           fetch |-> [called EXCEPT !.pc = "done", !.error = InvalidURLError]]
     ELSE IF Len(uri) < 2 \/ KindOf(parsed.resourceType) = ""
     THEN [store |-> st,
           fetch |-> [called EXCEPT !.pc = "done", !.error = ValidationError]]
     ELSE LET cached == GetResultOn(st, key, t)
              looked == [called EXCEPT !.key = key, !.ttl = FetchTTL(parsed),
                                       !.live = LiveEntry(st, key, t)]
          IN [store |-> GetOn(st, key, t),
              fetch |-> IF CacheHit(cached)
                        THEN [looked EXCEPT !.pc = "done", !.result = cached]
                        ELSE [looked EXCEPT !.pc = "upstream", !.upstream = 1]]

\* the mutant of Readable: the member's catch block fails on every error
ReadableNever(error) == FALSE

\* error.message and error.code can be read: error is an object
Readable(error) == error # ThrownNull

\* obj[key] = value on a plain object: an own property, except that the key
\* "__proto__" reaches Object.prototype's setter, which replaces the
\* prototype of obj and adds no property
PropertySet(obj, key, value) ==
  IF key = ProtoKey THEN obj ELSE MapSet(obj, key, value)

\* batchFetch's member for a fetch that has completed: results[uri] = value,
\* or errors[uri] = {message, code}; the member rejects if its catch throws
Settle(b, fr) ==
  IF fr.pc # "done" THEN b
  ELSE IF fr.error = NoErr
  THEN [b EXCEPT !.results = PropertySet(@, fr.uri, fr.result)]
  ELSE IF Readable(fr.error)
  THEN [b EXCEPT !.errors = PropertySet(@, fr.uri, fr.error.code)]
  ELSE [b EXCEPT !.pc = "failed"]

\* Promise.all resolves once no member is pending
Resolve(b, members) ==
  IF b.pc = "pending" /\ \A i \in 1..Len(b.uris) : members[i].pc = "done"
  THEN [b EXCEPT !.pc = "done"]
  ELSE b

\* every completed call has handed its result to its caller: a promise that
\* settles resumes its awaiter before any timer or I/O event is handled
Delivered ==
  /\ batch.pc \in {"idle", "pending"}
  /\ batch.pc = "idle" => \A f \in Fetchers : fetch[f].pc # "done"

\* a caller calls fetchResource(uri)
FetchStart(f, uri) ==
  LET r == BeginFetchOn(Store, uri, now)
  IN /\ Delivered
     /\ fetch[f].pc = "idle"
     /\ batch.pc = "idle"
     /\ Becomes(r.store)
     /\ fetch' = [fetch EXCEPT ![f] = r.fetch]
     /\ SubQuiet
     /\ UNCHANGED <<now, maxSize, ttl, batch, execVars, call>>

\* a caller calls batchFetch(uris): every member runs up to its first
\* suspension, in the order of uris
BatchStart(uris) ==
  LET r1 == BeginFetchOn(Store, uris[1], now)
      r2 == BeginFetchOn(r1.store, uris[2], now)
      st == IF Len(uris) = 0 THEN Store
            ELSE IF Len(uris) = 1 THEN r1.store ELSE r2.store
      members == [f \in Fetchers |->
                    IF f > Len(uris) THEN IdleFetch
                    ELSE IF f = 1 THEN r1.fetch ELSE r2.fetch]
      b0 == [IdleBatch EXCEPT !.pc = "pending", !.uris = uris]
      b1 == Settle(b0, members[1])
      b2 == Settle(b1, members[2])
  IN /\ Delivered
     /\ batch.pc = "idle"
     /\ \A f \in Fetchers : fetch[f].pc = "idle"
     /\ Becomes(st)
     /\ fetch' = members
     /\ batch' = Resolve(b2, members)
     /\ SubQuiet
     /\ UNCHANGED <<now, maxSize, ttl, execVars, call>>

\* fetch f has completed as fr: its promise settles, and with it the
\* batch member that awaits it
Completes(f, fr) ==
  LET members == [fetch EXCEPT ![f] = fr]
  IN /\ fetch' = members
     /\ batch' = IF f <= Len(batch.uris)
                 THEN Resolve(Settle(batch, fr), members)
                 ELSE batch

\* the mutant of Found: whatever the lookup yields counts as the item
FoundAlways(item) == TRUE

\* fetchPost, fetchTag: if (!post) throw new NotFoundError
Found(item) == Truthy(item)

\* the Ghost service returns: a single-item lookup that yields no item fails
\* with NotFoundError; otherwise the fetcher caches the result and returns it
UpstreamResolves(f, value) ==
  /\ Delivered
  /\ fetch[f].pc = "upstream"
  /\ value = Null => Len(fetch[f].key) = 3
  /\ IF Len(fetch[f].key) = 3 /\ ~Found(value)
     THEN /\ Completes(f, [fetch[f] EXCEPT !.pc = "done",
                                           !.error = NotFoundError])
          /\ UNCHANGED <<cache, accessOrder, mru, ev, born>>
     ELSE /\ SetFits(Store, maxSize)
          /\ Becomes(SetOn(Store, fetch[f].key, value, fetch[f].ttl, now,
                           maxSize, ttl))
          /\ Completes(f, [fetch[f] EXCEPT !.pc = "done", !.result = value])
  /\ SubQuiet
  /\ UNCHANGED <<now, maxSize, ttl, execVars, call>>

\* the mutant of Rethrow: the catch block wraps what it caught
RethrowWrapped(error) ==
  IF Readable(error) THEN ExternalServiceError("Ghost API") ELSE TypeError

\* fetchResource's catch logs error.message and rethrows; reading
\* error.message of a non-object throws a TypeError instead
Rethrow(error) == IF Readable(error) THEN error ELSE TypeError

\* the Ghost service rejects
UpstreamRejects(f, error) ==
  /\ Delivered
  /\ fetch[f].pc = "upstream"
  /\ Completes(f, [fetch[f] EXCEPT
                     !.pc = "done",
                     !.error = Rethrow(error)])
  /\ SubQuiet
  /\ UNCHANGED <<now, cacheVars, execVars, call>>

\* the caller of fetchResource has its result
FetchReturn(f) ==
  /\ fetch[f].pc = "done"
  /\ batch.pc = "idle"
  /\ fetch' = [fetch EXCEPT ![f] = IdleFetch]
  /\ SubQuiet
  /\ UNCHANGED <<now, batch, cacheVars, execVars, call>>

\* the caller of batchFetch has {results, errors}
BatchReturn ==
  /\ batch.pc \in {"done", "failed"}
  /\ \A f \in Fetchers : fetch[f].pc \in {"idle", "done"}
  /\ batch' = IdleBatch
  /\ fetch' = [f \in Fetchers |-> IdleFetch]
  /\ SubQuiet
  /\ UNCHANGED <<now, cacheVars, execVars, call>>

\* notifyChange(uri, data, eventType): this.cache.invalidate(uri), then
\* notifySubscribers(uri, data, eventType)
NotifyChange(uri, data) ==
  /\ Delivered
  /\ Becomes(InvalidateOn(Store, Join(uri, "/")))
  /\ NotifySubscribers(uri, data)
  /\ UNCHANGED <<now, maxSize, ttl, execVars, fetchVars>>

\* the instants the clock of the fetches may move to: the expiry of a cached
\* entry, or the millisecond after it
ExpiryTimes ==
  UNION {{cache[k].expiry, cache[k].expiry + 1} : k \in DOMAIN cache}

FetchTick ==
  /\ Delivered
  /\ \E t \in ExpiryTimes : t > now /\ t <= MaxFetchTime /\ now' = t
  /\ Becomes([Store EXCEPT !.ev = NoEvict])
  /\ SubQuiet
  /\ UNCHANGED <<maxSize, ttl, execVars, fetchVars>>

----------------------------------------------------------------------------
(* The stateless functions: fetchPosts' request and response building,      *)
(* ErrorHandler.getRetryDelay, ResourceURIParser.parse                      *)

\* a call of a stateless function changes nothing but call
Stateless == UNCHANGED <<now, cacheVars, execVars, subVars, fetch, batch>>

\* query.limit as parsed by parseInt; NoLimit stands for absent (NaN)
NoLimit == 0 - 1

\* the queries of a posts collection URI: filter and status ("" when absent)
\* and limit
PostsQueries ==
  [filter : {"", "tag:news"}, status : {"", "published", "all"},
   limit : {NoLimit, 1, 2, 20}]

\* the numbers of matching posts the Ghost site holds
UpstreamCounts == {0, 1, 5, 16}

\* the mutant of PostsLimit: the query's limit is ignored
PostsLimitDefault(limit) == 15

\* fetchPosts: limit: parseInt(query.limit) || 15
PostsLimit(limit) == IF limit > 0 THEN limit ELSE 15

\* fetchPosts: the options sent to ghostService.getPosts; a status in the
\* query is folded into the filter
PostsOptions(query) ==
  [limit |-> PostsLimit(query.limit),
   page |-> 1,
   filter |-> IF query.status # ""
              THEN IF query.filter # ""
                   THEN query.filter \o "+status:" \o query.status
                   ELSE "status:" \o query.status
              ELSE query.filter]

\* the Ghost Admin API's posts.browse on a site holding n matching posts: the
\* first page, of at most options.limit posts, with meta.pagination.total
Browse(options, n) == [length |-> Min(options.limit, n), total |-> n]

\* fetchPosts: the envelope {data, meta: {pagination}} built from the result
PostsResponse(result, options) ==
  LET total == IF result.total # 0 THEN result.total ELSE result.length
      pages == (result.total + options.limit - 1) \div options.limit
  IN [data |-> result.length,
      page |-> options.page,
      limit |-> options.limit,
      pages |-> IF pages # 0 THEN pages ELSE 1,
      total |-> total]

\* fetchPosts(query) on a cache miss, against a site holding n matching posts
FetchPosts(query, n) ==
  LET options == PostsOptions(query)
  IN /\ call' = [fn |-> "fetchPosts", query |-> query, holds |-> n,
                 options |-> options,
                 response |-> PostsResponse(Browse(options, n), options)]
     /\ Stateless

\* the attempt numbers getRetryDelay is called with
MaxAttempt == 6

\* the draws of Math.random() getRetryDelay is called with, in thousandths
Jitters == {0, 250, 999}

\* the errors getRetryDelay is called with: rate limits with a retry-after
\* hint in seconds, and failures without one
DelayErrors == { RateLimitError(0), RateLimitError(2), RateLimitError(60),
                 GhostAPIError(503), PlainError("ECONNRESET", 0) }

\* ErrorHandler.getRetryDelay(attempt, error), Math.random() drawing r / 1000
RetryDelay(attempt, error, r) ==
  /\ call' = [fn |-> "getRetryDelay", attempt |-> attempt, error |-> error,
              random |-> r, delay |-> GetRetryDelay(attempt, error, r)]
  /\ Stateless

\* a URI as text: the sequence of its characters, a run of characters other
\* than / ? & : and space standing as one element
RECURSIVE SplitOn(_, _)
\* string.split(sep), of a text
SplitOn(text, sep) ==
  IF \A i \in 1..Len(text) : text[i] # sep THEN <<text>>
  ELSE LET i == CHOOSE j \in 1..Len(text) :
                   text[j] = sep /\ \A k \in 1..(j - 1) : text[k] # sep
       IN <<SubSeq(text, 1, i - 1)>>
            \o SplitOn(SubSeq(text, i + 1, Len(text)), sep)

RECURSIVE JoinText(_, _)
\* array.join(sep), of texts
JoinText(parts, sep) ==
  IF Len(parts) = 0 THEN <<>>
  ELSE IF Len(parts) = 1 THEN parts[1]
  ELSE parts[1] \o <<sep>> \o JoinText(Tail(parts), sep)

\* filter(Boolean), of texts: the empty string is dropped
NonEmpty(text) == text # <<>>

\* the URL parser's percent-encoding of a character of the path
PercentEncode(c) == IF c = " " THEN "%20" ELSE c

\* url.pathname of new URL(uri, 'resource://'), without its leading slash
Pathname(path) == [i \in 1..Len(path) |-> PercentEncode(path[i])]

\* ResourceURIParser.parse(uri), of a URI as text
ParseText(text) ==
  LET halves == SplitOn(text, "?")
      search == JoinText(Tail(halves), "?")
      pathParts == SelectSeq(SplitOn(Pathname(halves[1]), "/"), NonEmpty)
      identifier == JoinText(SubSeq(pathParts, 3, Len(pathParts)), "/")
      query == SelectSeq(SplitOn(search, "&"), NonEmpty)
      typed == \E i \in 1..Len(identifier) : identifier[i] = ":"
      pieces == SplitOn(identifier, ":")
  IN IF Len(pathParts) < 2
     THEN [error |-> ValidationError, namespace |-> <<>>,
           resourceType |-> <<>>, identifier |-> <<>>,
           identifierType |-> <<>>, query |-> <<>>, isCollection |-> FALSE]
     ELSE [error |-> NoErr,
           namespace |-> pathParts[1],
           resourceType |-> pathParts[2],
           identifier |-> IF typed THEN JoinText(Tail(pieces), ":")
                          ELSE identifier,
           identifierType |-> IF typed THEN pieces[1] ELSE <<"id">>,
           query |-> query,
           isCollection |-> identifier = <<>> \/ Len(query) > 0]

\* the URIs parse is called with, by their parts: resource type, identifier
\* type T (empty for a bare identifier), identifier V (empty when absent)
\* and query
ParseInputs ==
  { u \in [resourceType : {<<"post">>, <<"posts">>, <<"tag">>},
           identifierType : {<<>>, <<"slug">>, <<"name">>},
           identifier : {<<>>, <<"123">>, <<"my-post">>,
                         <<"My", " ", "Tag">>},
           query : {<<>>, <<"limit=2">>, <<"status=published", "&", "limit=2">>}] :
      u.identifierType # <<>> => u.identifier # <<>> }

\* the text of a URI: namespace/resourceType[/[T:]V][?query]
URIText(u) ==
  <<"ghost", "/">> \o u.resourceType
    \o (IF u.identifier = <<>> THEN <<>>
        ELSE <<"/">> \o (IF u.identifierType = <<>> THEN <<>>
                         ELSE u.identifierType \o <<":">>)
                    \o u.identifier)
    \o (IF u.query = <<>> THEN <<>> ELSE <<"?">> \o u.query)

\* ResourceURIParser.parse(uri)
ParseCall(u) ==
  /\ call' = [fn |-> "parse", uri |-> u, parsed |-> ParseText(URIText(u))]
  /\ Stateless

----------------------------------------------------------------------------
(* Initial states and specifications *)

SubIdle ==
  /\ nextId = 1
  /\ subscription = << >>
  /\ subscriptions = {}
  /\ pollingIntervals = << >>
  /\ inflight = << >>
  /\ events = << >>
  /\ notified = NoNotify
  /\ server = "running"
  /\ returned = NoId
  /\ thrown = NoErr
  /\ remote = [u \in URIs |-> V1]

ExecIdle ==
  /\ breaker = NewBreaker
  /\ proc = [p \in Procs |-> IdleProc]
  /\ streak = 0
  /\ failedAt = NoTime

CacheIdle ==
  /\ maxSize = 1
  /\ ttl = DefaultTTL
  /\ cache = << >>
  /\ accessOrder = <<>>
  /\ mru = <<>>
  /\ ev = NoEvict
  /\ born = << >>

FetchIdle ==
  /\ fetch = [f \in Fetchers |-> IdleFetch]
  /\ batch = IdleBatch
  /\ call = NoCall

ExecInit == now = 0 /\ ExecIdle /\ CacheIdle /\ SubIdle /\ FetchIdle

DoStartExecute == \E p \in Procs : StartExecute(p)

DoStartRetry == \E p \in Procs : StartRetry(p)

DoStartApi == \E p \in Procs : StartApi(p)

DoSucceed == \E p \in Procs : Succeed(p)

DoFail == \E p \in Procs : Fail(p)

DoWake == \E p \in Procs : Wake(p)

DoReturn == \E p \in Procs : Return(p)

\* concurrent direct callers of one CircuitBreaker
BreakerNext ==
  DoStartExecute \/ DoSucceed \/ DoFail \/ DoReturn \/ TickBreaker

SpecBreaker == ExecInit /\ [][BreakerNext]_vars

\* concurrent callers of retryWithBackoff
RetryNext ==
  DoStartRetry \/ DoSucceed \/ DoFail \/ DoWake \/ DoReturn \/ TickExec

SpecRetry == ExecInit /\ [][RetryNext]_vars

\* concurrent callers of handleApiRequest, sharing ghostCircuitBreaker
ApiNext ==
  DoStartApi \/ DoSucceed \/ DoFail \/ DoWake \/ DoReturn \/ TickExec

SpecApi == ExecInit /\ [][ApiNext]_vars

SubInit == now = 0 /\ SubIdle /\ ExecIdle /\ CacheIdle /\ FetchIdle

DoSubscribe ==
  /\ server = "running"
  /\ \E u \in URIs, e \in BOOLEAN, i \in PollingIntervals : Subscribe(u, e, i)
  /\ UNCHANGED <<now, cacheVars, execVars, fetchVars>>

DoUnsubscribe ==
  /\ server = "running"
  /\ \E id \in SubIds : Unsubscribe(id)
  /\ UNCHANGED <<now, cacheVars, execVars, fetchVars>>

DoTimerFires ==
  /\ server # "exited"
  /\ \E id \in SubIds : TimerFires(id)
  /\ UNCHANGED <<now, cacheVars, execVars, fetchVars>>

DoPollResolves ==
  /\ server # "exited"
  /\ \E id \in SubIds : PollResolves(id)
  /\ UNCHANGED <<now, cacheVars, execVars, fetchVars>>

DoPollRejects ==
  /\ server # "exited"
  /\ \E id \in SubIds : PollRejects(id)
  /\ UNCHANGED <<now, cacheVars, execVars, fetchVars>>

DoNotify ==
  /\ server = "running"
  /\ \E u \in NotifyURIs, v \in Values : NotifySubscribers(u, v)
  /\ UNCHANGED <<now, cacheVars, execVars, fetchVars>>

DoRemoteChange ==
  /\ server # "exited"
  /\ \E u \in URIs, v \in RemoteValues : RemoteChange(u, v)
  /\ UNCHANGED <<now, cacheVars, execVars, fetchVars>>

DoShutdown == Shutdown /\ UNCHANGED <<now, cacheVars, execVars, fetchVars>>

DoProcessExit ==
  ProcessExit /\ UNCHANGED <<now, cacheVars, execVars, fetchVars>>

SubNext ==
  DoSubscribe \/ DoUnsubscribe \/ DoTimerFires \/ DoPollResolves
  \/ DoPollRejects \/ DoNotify \/ DoRemoteChange \/ DoShutdown
  \/ DoProcessExit

SpecSub == SubInit /\ [][SubNext]_vars

----------------------------------------------------------------------------
(* LRUCache on its own *)

CacheInit ==
  /\ now = 0
  /\ maxSize \in 1..MaxCacheSize
  /\ ttl = DefaultTTL
  /\ cache = << >>
  /\ accessOrder = <<>>
  /\ mru = <<>>
  /\ ev = NoEvict
  /\ born = << >>
  /\ ExecIdle
  /\ SubIdle
  /\ FetchIdle

DoGet == \E k \in Keys : CacheGet(k)

DoSet == \E k \in Keys, v \in Values, t \in CustomTTLs : CacheSet(k, v, t)

DoInvalidate == \E p \in Patterns : CacheInvalidate(p)

CacheNext == DoGet \/ DoSet \/ DoInvalidate \/ CacheTick

SpecCache == CacheInit /\ [][CacheNext]_vars

----------------------------------------------------------------------------
(* ResourceManager: fetchResource, batchFetch and notifyChange on its cache *)

FetchInit ==
  /\ now = 0
  /\ maxSize = ManagerCacheSize
  /\ ttl = DefaultTTL
  /\ cache = << >>
  /\ accessOrder = <<>>
  /\ mru = <<>>
  /\ ev = NoEvict
  /\ born = << >>
  /\ ExecIdle
  /\ SubIdle
  /\ FetchIdle

DoFetchStart ==
  \E f \in Fetchers, u \in FetchURIs \cup MalformedURIs : FetchStart(f, u)

DoBatchStart == \E uris \in BatchInputs : BatchStart(uris)

DoUpstreamResolves ==
  \E f \in Fetchers, v \in Values \cup {Null} : UpstreamResolves(f, v)

DoUpstreamRejects ==
  \E f \in Fetchers, e \in FetchErrors : UpstreamRejects(f, e)

DoFetchReturn == \E f \in Fetchers : FetchReturn(f)

DoNotifyChange == \E u \in FetchURIs : NotifyChange(u, V2)

FetchNext ==
  DoFetchStart \/ DoBatchStart \/ DoUpstreamResolves \/ DoUpstreamRejects
  \/ DoFetchReturn \/ BatchReturn \/ DoNotifyChange \/ FetchTick

SpecFetch == FetchInit /\ [][FetchNext]_vars

----------------------------------------------------------------------------
(* The stateless functions, each called with every input *)

PureInit ==
  /\ now = 0
  /\ CacheIdle
  /\ ExecIdle
  /\ SubIdle
  /\ FetchIdle

DoFetchPosts ==
  \E q \in PostsQueries, n \in UpstreamCounts : FetchPosts(q, n)

DoRetryDelay ==
  \E a \in 1..MaxAttempt, e \in DelayErrors, r \in Jitters :
     RetryDelay(a, e, r)

DoParse == \E u \in ParseInputs : ParseCall(u)

PureNext == DoFetchPosts \/ DoRetryDelay \/ DoParse

SpecPure == PureInit /\ [][PureNext]_vars

----------------------------------------------------------------------------
(* Claims about LRUCache, under SpecCache *)

Size == Cardinality(DOMAIN cache)

Count(s, k) == Cardinality({i \in 1..Len(s) : s[i] = k})

\* C8: for a cache with maxSize >= 1, after every set, get and invalidate the
\* number of stored entries is at most maxSize.
C8_CapacityBound == maxSize >= 1 => Size <= maxSize

\* a set at capacity has just evicted a stored key and the cache is full again
C8_Witness == ev.key # NoKey /\ Size = maxSize /\ maxSize > 1

\* C9: whenever a set of a key that is not stored evicts an entry, the evicted
\* key is the stored key whose most recent access (set or get hit) is oldest.
C9_EvictsLeastRecent == (ev.key # NoKey /\ ev.fresh) => ev.key = ev.lru

\* C10: after every operation accessOrder holds each stored key exactly once
\* and no other key, and the most recently set-or-hit key is last.
C10_OrderIsLiveKeys ==
  /\ \A k \in DOMAIN cache : Count(accessOrder, k) = 1
  /\ \A i \in 1..Len(accessOrder) : accessOrder[i] \in DOMAIN cache
  /\ mru # <<>> => accessOrder[Len(accessOrder)] = mru[Len(mru)]

\* C11: for an entry stored by set(key, v, ttl) at time t0, not overwritten
\* and still held, get(key) at time t returns v if t <= t0 + ttl; if
\* t > t0 + ttl it returns absent and removes the entry: the size decreases by
\* one and the key leaves the access order.
C11_ExpiryOnGet ==
  [][\A k \in Keys :
       (k \in DOMAIN cache /\ CacheGet(k)) =>
         IF now <= born[k].at + born[k].ttl
         THEN /\ GetResult(k) = born[k].value
              /\ k \in DOMAIN cache'
         ELSE /\ GetResult(k) = Null
              /\ k \notin DOMAIN cache'
              /\ Cardinality(DOMAIN cache') = Size - 1
              /\ Count(accessOrder', k) = 0]_vars

\* a get has just dropped an expired entry while another entry stays stored
C11_Witness ==
  ev.expired # NoKey /\ ev.expired \notin DOMAIN cache /\ Size >= 1

----------------------------------------------------------------------------
(* Claims about ResourceManager's fetches, under SpecFetch *)

\* the window a fetched entry is served from the cache: 300000 ms for a
\* single item, 60000 ms for a collection
Window(key) == IF Len(key) = 2 THEN 60000 ELSE 300000

\* C12: if fetch(uri) has succeeded and its cache entry is neither expired
\* (single items are stored for 300000 ms, collections for 60000 ms), evicted
\* nor invalidated, an identical later fetch(uri) returns the cached result
\* without invoking the upstream call.
C12_CachedFetchSkipsUpstream ==
  /\ \A k \in DOMAIN born : born[k].ttl = Window(k)
  /\ \A f \in Fetchers :
       (fetch[f].pc # "idle" /\ Truthy(fetch[f].live)) =>
          /\ fetch[f].pc = "done"
          /\ fetch[f].upstream = 0
          /\ fetch[f].error = NoErr
          /\ fetch[f].result = fetch[f].live

\* a fetch has just been served from the cache at the last instant of its
\* entry's window
C12_Witness ==
  \E f \in Fetchers :
    /\ fetch[f].pc = "done" /\ fetch[f].upstream = 0
    /\ Truthy(fetch[f].live) /\ fetch[f].result = fetch[f].live
    /\ fetch[f].key \in DOMAIN born
    /\ now = born[fetch[f].key].at + Window(fetch[f].key)

\* the cache key fetch(uri) stores its result under
KeyOfURI(uri) == CacheKey(Parse(uri))

\* C13: after notifyChange(uri, data, eventType) for a URI whose fetch result
\* is cached, the cache no longer holds the entry for that URI, so the next
\* fetch(uri) invokes the upstream call.
C13_NotifyInvalidates ==
  [][\A u \in FetchURIs, d \in Values :
       (/\ KindOf(Parse(u).resourceType) # ""
        /\ KeyOfURI(u) \in DOMAIN cache
        /\ NotifyChange(u, d)) =>
          KeyOfURI(u) \notin DOMAIN cache']_vars

----------------------------------------------------------------------------
(* Claims about CircuitBreaker, under SpecBreaker *)

\* C2: starting from CLOSED with failureCount 0, failureThreshold failed calls
\* in a row leave the breaker OPEN with nextAttempt = time of the last failure
\* + resetTimeout, and fewer failed calls in a row leave it CLOSED.
C2_OpensAtThreshold ==
  streak >= 0 =>
    IF streak < FailureThreshold
    THEN breaker.state = "CLOSED"
    ELSE /\ breaker.state = "OPEN"
         /\ breaker.nextAttempt = failedAt + ResetTimeout

\* the threshold-th failure in a row has happened, after the clock moved
C2_Witness ==
  streak = FailureThreshold /\ breaker.state = "OPEN" /\ failedAt > 0

\* caller p enters CircuitBreaker.execute in this step
Enters(p) == proc'[p].gates = proc[p].gates + 1

\* C3: a call of execute made while state = OPEN and now < nextAttempt is
\* rejected without invoking the wrapped function; one made while state = OPEN
\* and now >= nextAttempt sets state to HALF_OPEN before the function is invoked.
C3_OpenGate ==
  [][\A p \in Procs :
       (Enters(p) /\ breaker.state = "OPEN") =>
         IF now < breaker.nextAttempt
         THEN /\ proc'[p].calls = proc[p].calls
              /\ proc'[p].pc # "inflight"
              /\ proc'[p].lastError = CircuitOpenError
              /\ breaker' = breaker
         ELSE /\ breaker'.state = "HALF_OPEN"
              /\ proc'[p].calls = proc[p].calls + 1
              /\ proc'[p].pc = "inflight"]_vars

\* one caller has been rejected by the OPEN breaker and, the timeout elapsed,
\* another has been let through as the trial call
C3_Witness ==
  \E p, q \in Procs :
    /\ proc[p].pc = "done" /\ proc[p].result = CircuitOpenError
    /\ proc[p].calls = 0
    /\ proc[q].pc = "inflight" /\ proc[q].adm = "HALF_OPEN"
    /\ breaker.state = "HALF_OPEN"

\* C4: whenever a wrapped call admitted while the breaker was HALF_OPEN
\* completes, a success leaves the breaker CLOSED with failureCount 0 and a
\* failure leaves it OPEN with nextAttempt = completion time + resetTimeout.
C4_HalfOpenOutcome ==
  [][\A p \in Procs :
       (/\ proc[p].pc = "inflight"
        /\ proc[p].adm = "HALF_OPEN"
        /\ proc'[p].pc # "inflight") =>
         IF proc'[p].result = Ok
         THEN breaker'.state = "CLOSED" /\ breaker'.failureCount = 0
         ELSE /\ breaker'.state = "OPEN"
              /\ breaker'.nextAttempt = now + ResetTimeout]_vars

----------------------------------------------------------------------------
(* Claims about the executor, under SpecRetry and SpecApi *)

\* the error an attempt of caller pr fails with when its function throws
Thrown(pr) == IF pr.kind = "api" THEN FromGhostError(pr.op) ELSE pr.op

\* C5: an operation that fails with a retryable error on every attempt is
\* invoked exactly maxAttempts times, with a backoff delay between consecutive
\* attempts, and the executor then propagates the error of the last attempt.
C5_RetriesToMaxAttempts ==
  \A p \in Procs :
    (/\ proc[p].pc = "done"
     /\ proc[p].kind \in {"retry", "api"}
     /\ proc[p].result # Ok
     /\ IsRetryable(Thrown(proc[p]))) =>
       /\ proc[p].calls = proc[p].maxAttempts
       /\ proc[p].delays = proc[p].maxAttempts - 1
       /\ proc[p].result = Thrown(proc[p])

\* C6: an operation that fails with a ValidationError is invoked exactly once,
\* and the error propagates with no backoff delay and no second attempt,
\* whatever maxAttempts is.
C6_ValidationNotRetried ==
  \A p \in Procs :
    (proc[p].kind = "retry" /\ proc[p].op = ValidationError) =>
       /\ proc[p].calls <= 1
       /\ proc[p].delays = 0
       /\ proc[p].pc # "sleep"
       /\ (proc[p].pc = "done" /\ proc[p].result # Ok) =>
            /\ proc[p].calls = 1
            /\ proc[p].result = ValidationError

\* a call with maxAttempts 3 has ended on the ValidationError of its one attempt
C6_Witness ==
  \E p \in Procs :
    /\ proc[p].pc = "done" /\ proc[p].kind = "retry"
    /\ proc[p].maxAttempts = 3
    /\ proc[p].calls = 1
    /\ proc[p].result = ValidationError

\* C7: under handleApiRequest an upstream call failing with a status that is
\* neither 429, 5xx nor a connection failure is invoked exactly once and its
\* translated error propagates without any retry.
C7_ClientErrorNotRetried ==
  \A p \in Procs :
    (/\ proc[p].kind = "api"
     /\ proc[p].op.statusCode \in {400, 401, 404, 422}) =>
       /\ proc[p].calls <= 1
       /\ proc[p].pc = "done" /\ proc[p].result # Ok /\ proc[p].calls = 1 =>
            /\ proc[p].delays = 0
            /\ proc[p].result = FromGhostError(proc[p].op)

----------------------------------------------------------------------------
(* Claims about ResourceSubscriptionManager, under SpecSub *)

\* C1: after unsubscribe(id) has returned, the callback of that subscription
\* is never invoked again: not by a timer tick, not by notifyChange, and not by
\* a poll whose fetch was in flight at the unsubscribe and completes after it.
C1_NoCallbackAfterUnsubscribe ==
  \A id \in DOMAIN events : events[id] # <<>> => id \in subscriptions

\* one URI is the other, or its leading part
Related(a, b) ==
  \E n \in 0..Len(a) + Len(b) :
    \/ n <= Len(a) /\ SubSeq(a, 1, n) = b
    \/ n <= Len(b) /\ SubSeq(b, 1, n) = a

\* C14: notifyChange(uri, data) invokes, exactly once each, the callback of
\* every registered subscription whose URI equals the changed URI or stands in
\* a prefix relation with it, polling or not, and no other callback.
C14_NotifyMatching ==
  notified # NoNotify =>
    \A id \in DOMAIN events :
      events[id] =
        IF id \in subscriptions /\ Related(subscription[id].uri, notified.uri)
        THEN <<[type |-> "update", data |-> notified.data]>>
        ELSE <<>>

\* one notification has just reached two subscriptions with different URIs,
\* one of them without polling
C14_Witness ==
  \E i, j \in subscriptions :
    /\ notified # NoNotify
    /\ events[i] # <<>> /\ events[j] # <<>>
    /\ subscription[i].uri # subscription[j].uri
    /\ ~subscription[i].enablePolling /\ subscription[j].enablePolling

\* the properties of a value, whatever their order
Properties(value) == {value.pairs[i] : i \in 1..Len(value.pairs)}

\* two values are structurally equal: both null, or objects with the same
\* properties
StructurallyEqual(x, y) ==
  x.type = y.type /\ Properties(x) = Properties(y)

\* C15: for every poll cycle whose fetch succeeds: if the fetched value is
\* structurally equal to lastValue, no callback is issued and lastValue is
\* unchanged; if it differs, exactly one 'update' callback carrying the fetched
\* value is issued and lastValue becomes that value.
C15_PollChangeDetection ==
  [][\A id \in SubIds :
       PollResolves(id) =>
         LET fetched == remote[subscription[id].uri]
             last == subscription[id].lastValue
         IN IF StructurallyEqual(fetched, last)
            THEN /\ events'[id] = <<>>
                 /\ subscription'[id].lastValue = last
            ELSE /\ events'[id] = <<[type |-> "update", data |-> fetched]>>
                 /\ subscription'[id].lastValue = fetched]_vars

\* C16: when the fetch of a poll cycle fails, the subscription's callback is
\* invoked once with type 'error', lastValue is left unchanged, the
\* subscription stays registered and its timer stays scheduled and able to
\* fire, so a later poll cycle is still executed.
C16_PollErrorReported ==
  [][\A id \in SubIds :
       (id \in subscriptions /\ PollRejects(id)) =>
          /\ events'[id] = <<[type |-> "error", data |-> Null]>>
          /\ subscription'[id].lastValue = subscription[id].lastValue
          /\ id \in subscriptions'
          /\ id \in DOMAIN pollingIntervals'
          /\ pollingIntervals'[id] = pollingIntervals[id]
          /\ inflight'[id] < MaxInflight]_vars

\* a poll of a registered subscription has just failed after an earlier one
\* had succeeded: the value seen then is kept and the timer is still there
C16_Witness ==
  \E id \in subscriptions :
    /\ events[id] = <<[type |-> "error", data |-> Null]>>
    /\ subscription[id].lastValue # Null
    /\ id \in DOMAIN pollingIntervals

\* C17: in every state reachable by subscribe, unsubscribe and server
\* shutdown, each scheduled poll timer belongs to a subscription that is in
\* the registry: once a subscription has been removed no timer created for it
\* remains scheduled.
C17_TimersOwned == DOMAIN pollingIntervals \subseteq subscriptions

\* C18: subscribe always adds exactly one new record to the registry and
\* returns its id, and a poll timer exists for that id exactly when
\* options.enablePolling is set; unsubscribe of an id that is not registered
\* fails with NotFound and leaves the registry and the timers unchanged.
C18_SubscribeRegisters ==
  [][ /\ \A u \in URIs, e \in BOOLEAN, i \in PollingIntervals :
          Subscribe(u, e, i) =>
            /\ thrown' = NoErr
            /\ returned' \notin subscriptions
            /\ subscriptions' = subscriptions \cup {returned'}
            /\ Cardinality(subscriptions') = Cardinality(subscriptions) + 1
            /\ subscription'[returned'].uri = u
            /\ \A id \in subscriptions :
                  subscription'[id] = subscription[id]
            /\ (returned' \in DOMAIN pollingIntervals') <=> e
            /\ \A id \in DOMAIN pollingIntervals :
                  /\ id \in DOMAIN pollingIntervals'
                  /\ pollingIntervals'[id] = pollingIntervals[id]
            /\ DOMAIN pollingIntervals' \subseteq
                  (DOMAIN pollingIntervals) \cup {returned'}
      /\ \A id \in SubIds :
          (Unsubscribe(id) /\ id \notin subscriptions) =>
            /\ thrown' = NotFoundError
            /\ UNCHANGED <<subscriptions, subscription, pollingIntervals>>
    ]_vars

\* two subscriptions were made, the first with a timer and the second
\* without; the second was removed, and a further unsubscribe of its id has
\* failed with NotFound, the first subscription and its timer still in place
C18_Witness ==
  /\ thrown = NotFoundError
  /\ nextId = 3
  /\ subscriptions = {1}
  /\ DOMAIN pollingIntervals = {1}
  /\ ~subscription[2].enablePolling

\* C19: for every subscription created through subscribe with polling
\* enabled, the interval of its timer is 30000 ms when
\* options.pollingInterval is absent, and is never less than 5000 ms
\* whatever pollingInterval the caller passes.
C19_PollingIntervalFloor ==
  [][ \A u \in URIs, i \in PollingIntervals :
        Subscribe(u, TRUE, i) =>
          /\ returned' \in DOMAIN pollingIntervals'
          /\ i = 0 => pollingIntervals'[returned'] = 30000
          /\ pollingIntervals'[returned'] >= 5000
    ]_vars

\* C20: batchFetch never fails as a whole: it completes once every member
\* fetch has completed, and every input URI is then in exactly one of
\* results (with its fetched value) and errors (with its code), a member's
\* failure touching neither the other members' entries nor the outcome.
C20_BatchNeverFails ==
  LET members == 1..Len(batch.uris)
      inputs == {batch.uris[i] : i \in members}
  IN /\ batch.pc # "failed"
     /\ batch.pc = "pending" => \E i \in members : fetch[i].pc # "done"
     /\ batch.pc = "done" =>
          /\ \A i \in members : fetch[i].pc = "done"
          /\ (DOMAIN batch.results) \cup (DOMAIN batch.errors) \subseteq inputs
          /\ \A u \in inputs :
                (u \in DOMAIN batch.results) # (u \in DOMAIN batch.errors)
          /\ \A u \in DOMAIN batch.results :
                \E i \in members : /\ batch.uris[i] = u
                                    /\ fetch[i].error = NoErr
                                    /\ fetch[i].result = batch.results[u]
          /\ \A u \in DOMAIN batch.errors :
                \E i \in members : /\ batch.uris[i] = u
                                    /\ fetch[i].error # NoErr
                                    /\ fetch[i].error.code = batch.errors[u]

\* the errors handleApiRequest produces for a real upstream failure
UpstreamFailures == {FromGhostError(e) : e \in UpstreamErrors}

\* C21: the error raised when the breaker rejects a call without attempting
\* it has a kind and a code that differ from those of every error produced
\* for a real upstream failure: it is no ExternalServiceError, and its code is
\* the code of none of them.
C21_CircuitOpenDistinct ==
  [][ \A p \in Procs :
        (/\ proc'[p].gates = proc[p].gates + 1
         /\ proc'[p].calls = proc[p].calls) =>
          /\ ~InstanceOf(proc'[p].lastError.cls, "ExternalServiceError")
          /\ \A e \in UpstreamFailures :
                /\ proc'[p].lastError.cls # e.cls
                /\ proc'[p].lastError.code # e.code
    ]_vars

\* C22: a single-item fetch whose upstream lookup yields no matching item
\* fails with a NotFound error and writes nothing to the cache, so that a
\* later fetch of the same URI, not served by an entry another fetch stored,
\* performs the upstream lookup again.
C22_NotFoundNotCached ==
  [][ \A f \in Fetchers :
        UpstreamResolves(f, Null) =>
          /\ fetch'[f].pc = "done"
          /\ fetch'[f].error = NotFoundError
          /\ fetch'[f].result = Null
          /\ UNCHANGED <<cache, accessOrder, born>>
          /\ fetch[f].key \notin DOMAIN cache =>
                BeginFetchOn(Store', fetch[f].uri, now').fetch.pc = "upstream"
    ]_vars

\* a single-item fetch has failed with NotFound after its upstream lookup, and
\* the cache still holds nothing under its key
C22_Witness ==
  \E f \in Fetchers :
    /\ fetch[f].pc = "done"
    /\ fetch[f].error = NotFoundError
    /\ fetch[f].upstream = 1
    /\ Len(fetch[f].key) = 3
    /\ fetch[f].key \notin DOMAIN cache

\* C23: fetch(uri) for a URI with fewer than two path segments, or whose
\* resourceType is outside post, posts, tag, tags, fails with a Validation
\* error, invokes no upstream call and leaves the cache as it was.
C23_MalformedFailsValidation ==
  [][ \A f \in Fetchers, u \in FetchURIs \cup MalformedURIs :
        (/\ Len(u) < 2 \/ Parse(u).resourceType \notin
                             {"post", "posts", "tag", "tags"}
         /\ FetchStart(f, u)) =>
          /\ fetch'[f].pc = "done"
          /\ fetch'[f].error = ValidationError
          /\ fetch'[f].upstream = 0
          /\ UNCHANGED <<cache, accessOrder, born>>
    ]_vars

----------------------------------------------------------------------------
(* Claims about the stateless functions, under SpecPure *)

FoldedFilter(query) ==
  IF query.status \in {"", "all"} THEN query.filter
  ELSE IF query.filter = "" THEN "status:" \o query.status
  ELSE query.filter \o "+status:" \o query.status

\* C25: the filter a posts collection fetch sends upstream is the query's
\* filter AND-combined with status:<s> when the query has a status s other
\* than "all", and exactly the query's filter when status is absent or "all".
C25_StatusFoldedIntoFilter ==
  call.fn = "fetchPosts" => call.options.filter = FoldedFilter(call.query)

\* C26: for a rate-limit error carrying a retry-after hint of N seconds the
\* backoff policy returns exactly N * 1000 ms, for every attempt number, with
\* no jitter and no cap.
C26_HintedDelayExact ==
  (call.fn = "getRetryDelay" /\ call.error.cls = "RateLimitError") =>
     call.delay = call.error.retryAfter * 1000

\* a hint above the backoff's cap, at a late attempt, with a jitter draw
C26_Witness ==
  /\ call.fn = "getRetryDelay"
  /\ call.error = RateLimitError(60)
  /\ call.attempt = MaxAttempt
  /\ call.random > 0
  /\ call.delay = 60000

\* the spec's delay before jitter: min(30000, 1000 * 2^(attempt - 1))
PreJitter(attempt) == Min(30000, 1000 * Pow2(attempt - 1))

\* C27: for attempts 1..6 and an error without retry-after hint, the
\* pre-jitter delay min(30000, 1000 * 2^(attempt - 1)) is non-decreasing in
\* the attempt number and never above 30000 ms, and the delay returned is at
\* least the pre-jitter delay and at most 1.3 times it.
C27_BackoffBounded ==
  (call.fn = "getRetryDelay" /\ call.error.cls # "RateLimitError") =>
     /\ BackoffDelay(call.attempt) = PreJitter(call.attempt)
     /\ BackoffDelay(call.attempt) <= 30000
     /\ call.attempt > 1 =>
           BackoffDelay(call.attempt - 1) <= BackoffDelay(call.attempt)
     /\ call.delay >= PreJitter(call.attempt)
     /\ 10 * call.delay <= 13 * PreJitter(call.attempt)

\* the sixth attempt, where the cap applies, with the largest jitter draw
C27_Witness ==
  /\ call.fn = "getRetryDelay"
  /\ call.error = GhostAPIError(503)
  /\ call.attempt = 6
  /\ call.random = 999
  /\ call.delay > 30000

\* C28: parsing namespace/resourceType/T:V without query yields
\* identifierType = T, identifier = V and isCollection = false; a bare
\* identifier yields identifierType = id; and isCollection is true exactly
\* when the identifier is absent or the query is non-empty.
C28_ParseTypedIdentifier ==
  call.fn = "parse" =>
     /\ call.parsed.error = NoErr
     /\ call.parsed.resourceType = call.uri.resourceType
     /\ (call.uri.identifierType # <<>> /\ call.uri.query = <<>>) =>
           /\ call.parsed.identifierType = call.uri.identifierType
           /\ call.parsed.identifier = call.uri.identifier
           /\ ~call.parsed.isCollection
     /\ (call.uri.identifierType = <<>> /\ call.uri.identifier # <<>>) =>
           call.parsed.identifierType = <<"id">>
     /\ call.parsed.isCollection <=>
           (call.uri.identifier = <<>> \/ call.uri.query # <<>>)

----------------------------------------------------------------------------
(* Further claims about the executor and the breaker *)

\* caller pr after its backoff delay when the diagnostic event is emitted
\* without failure: the next attempt begins
NextAttempt(pr, r) ==
  BeginAttempt([pr EXCEPT !.delays = @ + 1, !.wakeAt = NoTime,
                          !.attempt = @ + 1], breaker, now, r).proc

\* C29: the executor's diagnostic event (the onRetry callback) never
\* influences control flow: when emitting it fails, the executor goes on to
\* the same attempt, and so to the same result or operation error, as when
\* emitting it succeeds.
C29_DiagnosticNoInfluence ==
  [][ \A p \in Procs :
        (proc[p].pc = "sleep" /\ proc'[p].pc # "sleep") =>
          \E r \in Randoms : proc'[p] = NextAttempt(proc[p], r)
    ]_vars

\* C30: while the breaker is HALF_OPEN at most one wrapped call is in
\* flight: a call that arrives after the trial call was admitted and before
\* it has completed is not passed to the wrapped function.
C30_SingleTrialCall ==
  Cardinality({p \in Procs : /\ proc[p].pc = "inflight"
                              /\ proc[p].adm = "HALF_OPEN"}) <= 1

\* C31: when an attempt is rejected by the OPEN breaker, no wrapped call
\* made, the executor does not retry it: the rejection reaches the caller
\* at once, with no backoff delay and no further attempt.
C31_RejectionNotRetried ==
  [][ \A p \in Procs :
        (/\ proc'[p].gates = proc[p].gates + 1
         /\ proc'[p].calls = proc[p].calls) =>
          /\ proc'[p].pc = "done"
          /\ proc'[p].result = CircuitOpenError
          /\ proc'[p].wakeAt = NoTime
    ]_vars

----------------------------------------------------------------------------
(* Further claims about ResourceManager's fetches, under SpecFetch *)

\* C32: two fetches of one uncached URI that interleave each invoke the
\* upstream call once, neither blocks or fails the other, and when the later
\* one completes successfully the cache holds the entry for the key with the
\* result of that fetch.
C32_ConcurrentMisses ==
  [][ \A f \in Fetchers, g \in Fetchers :
        (/\ f # g
         /\ fetch[f].pc = "upstream"
         /\ fetch[g].pc \in {"upstream", "done"}
         /\ fetch[g].upstream = 1
         /\ fetch[g].key = fetch[f].key
         /\ fetch'[f].pc = "done") =>
          /\ fetch[f].upstream = 1 /\ fetch'[f].upstream = 1
          /\ fetch'[g] = fetch[g]
          /\ fetch'[f].error = NoErr =>
                /\ fetch[f].key \in DOMAIN cache'
                /\ cache'[fetch[f].key].value = fetch'[f].result
    ]_vars

\* both members of a batch fetched the same URI upstream, the results differ,
\* and the cache holds one of them
C32_Witness ==
  /\ batch.pc = "done"
  /\ fetch[1].key = fetch[2].key
  /\ fetch[1].upstream = 1 /\ fetch[2].upstream = 1
  /\ fetch[1].error = NoErr /\ fetch[2].error = NoErr
  /\ fetch[1].result # fetch[2].result
  /\ fetch[1].key \in DOMAIN cache
  /\ cache[fetch[1].key].value \in {fetch[1].result, fetch[2].result}

----------------------------------------------------------------------------
(* Further claims about CircuitBreaker, under SpecBreaker *)

\* C33: in every state of the breaker reachable through execute, state = OPEN
\* implies failureCount >= failureThreshold and nextAttempt is set.
C33_OpenImpliesThreshold ==
  breaker.state = "OPEN" =>
    /\ breaker.failureCount >= FailureThreshold
    /\ breaker.nextAttempt # NoTime

----------------------------------------------------------------------------
(* Further claims about LRUCache, under SpecCache *)

\* C34: set of a key that is already stored replaces only that key's value
\* and expiry: no other live key is removed, even when the cache is at
\* capacity.
C34_OverwriteKeepsOthers ==
  [][ \A k \in DOMAIN cache :
        (\E v \in Values, t \in CustomTTLs : CacheSet(k, v, t)) =>
          \A j \in (DOMAIN cache) \ {k} :
            ~Expired(cache[j], now) =>
              j \in DOMAIN cache' /\ cache'[j] = cache[j]
    ]_vars

----------------------------------------------------------------------------
(* Failing fetches, under SpecFetch *)

\* C35: a fetch that fails (validation, not found, rejection of the upstream
\* call by the service or by the breaker) leaves the cache contents and the
\* access order as they were before its upstream call, and the caller gets
\* the error that was thrown, not another one and not a value.
C35_FailedFetchFrame ==
  [][ \A f \in Fetchers :
        /\ \A e \in FetchErrors :
              (Readable(e) /\ UpstreamRejects(f, e)) =>
                /\ fetch'[f].error = e
                /\ fetch'[f].result = Null
                /\ cache' = cache /\ accessOrder' = accessOrder
        /\ UpstreamResolves(f, Null) =>
              /\ fetch'[f].error # NoErr
              /\ fetch'[f].result = Null
              /\ cache' = cache /\ accessOrder' = accessOrder
        /\ \A u \in FetchURIs \cup MalformedURIs :
              (FetchStart(f, u) /\ fetch'[f].error # NoErr) =>
                /\ fetch'[f].result = Null
                /\ cache' = cache /\ accessOrder' = accessOrder
    ]_vars

\* a fetch was rejected by the open breaker while another key is cached
C35_Witness ==
  \E f \in Fetchers :
    /\ fetch[f].pc = "done"
    /\ fetch[f].upstream = 1
    /\ fetch[f].error = CircuitOpenError
    /\ cache # << >>
    /\ fetch[f].key \notin DOMAIN cache

----------------------------------------------------------------------------
(* Rejected calls, under SpecBreaker *)

\* C36: a call rejected by the OPEN breaker leaves state, failureCount,
\* lastFailureTime and nextAttempt as they were, so rejected calls never move
\* the time of the next trial.
C36_RejectionLeavesBreaker ==
  [][ \A p \in Procs :
        (/\ proc'[p].gates = proc[p].gates + 1
         /\ proc'[p].calls = proc[p].calls) =>
          /\ breaker'.state = breaker.state
          /\ breaker'.failureCount = breaker.failureCount
          /\ breaker'.lastFailureTime = breaker.lastFailureTime
          /\ breaker'.nextAttempt = breaker.nextAttempt
    ]_vars

\* a call was rejected after the time of the failure that opened the breaker
C36_Witness ==
  \E p \in Procs :
    /\ proc[p].pc = "done"
    /\ proc[p].gates = 1 /\ proc[p].calls = 0
    /\ proc[p].result = CircuitOpenError
    /\ breaker.state = "OPEN"
    /\ breaker.lastFailureTime < now
    /\ breaker.nextAttempt = breaker.lastFailureTime + ResetTimeout

----------------------------------------------------------------------------
(* ResourceManager with its subscription manager: the constructor hands     *)
(* (uri) => this.fetchResource(uri) to ResourceSubscriptionManager, so every *)
(* poll is a fetch through the cache.  Fetch 1 is the poll's, fetch 2 is    *)
(* another caller's.                                                        *)

PollFetch == 1

OtherFetch == 2

\* the URI subscribed to
PolledURI == <<"ghost", "post", "a">>

\* pollFunc up to its await: this.fetchResource(subscription.uri)
PollBegins(uri) ==
  LET r == BeginFetchOn(Store, uri, now)
  IN /\ Delivered
     /\ fetch[PollFetch].pc = "idle"
     /\ Becomes(r.store)
     /\ fetch' = [fetch EXCEPT ![PollFetch] = r.fetch]
     /\ UNCHANGED <<now, maxSize, ttl, batch, execVars, call>>

\* subscribe with polling: startPolling's initial pollFunc() call
PollSubscribe(uri) ==
  /\ nextId = 1
  /\ Subscribe(uri, TRUE, 0)
  /\ PollBegins(uri)

\* the interval timer fires: pollFunc
PollFires(id) ==
  /\ TimerFires(id)
  /\ PollBegins(subscription[id].uri)

\* pollFunc after its await: the comparison with lastValue and the callback,
\* or the catch block's 'error' callback
PollSettles(id) ==
  LET fr == fetch[PollFetch]
  IN /\ fr.pc = "done"
     /\ id \in DOMAIN inflight
     /\ inflight[id] > 0
     /\ inflight' = [inflight EXCEPT ![id] = @ - 1]
     /\ IF fr.error # NoErr
        THEN /\ Callback(PollTarget(id), "error", Null)
             /\ UNCHANGED subscription
        ELSE IF Stringify(fr.result) # Stringify(subscription[id].lastValue)
        THEN /\ subscription' =
                  [subscription EXCEPT ![id].lastValue = fr.result]
             /\ Callback(PollTarget(id), "update", fr.result)
        ELSE UNCHANGED subscription /\ NoCallback
     /\ fetch' = [fetch EXCEPT ![PollFetch] = IdleFetch]
     /\ thrown' = NoErr /\ notified' = NoNotify /\ returned' = NoId
     /\ UNCHANGED <<nextId, subscriptions, pollingIntervals, remote, server>>
     /\ UNCHANGED <<now, batch, cacheVars, execVars, call>>

DoPollSubscribe == PollSubscribe(PolledURI)

DoPollFires == \E id \in SubIds : PollFires(id)

DoPollSettles == \E id \in SubIds : PollSettles(id)

DoOtherFetchStart == FetchStart(OtherFetch, PolledURI)

DoOtherFetchReturn == FetchReturn(OtherFetch)

DoPollUpstreamResolves ==
  \E f \in Fetchers, v \in Values : UpstreamResolves(f, v)

PollNext ==
  DoPollSubscribe \/ DoPollFires \/ DoPollSettles \/ DoOtherFetchStart
  \/ DoOtherFetchReturn \/ DoPollUpstreamResolves \/ DoUpstreamRejects
  \/ FetchTick

SpecPoll == FetchInit /\ [][PollNext]_vars

\* the cache key of the subscription's URI
PolledKey(id) == CacheKey(Parse(subscription[id].uri))

\* C37: while an unexpired cache entry exists for a subscription's URI, every
\* poll cycle obtains the cached value without an upstream call, so that no
\* 'update' callback is made until the entry expires, is evicted or is
\* invalidated.  (No entry stored at or after time 0 has expired while
\* now <= ttl, and this specification neither evicts nor invalidates.)
C37_CachedPollSilent ==
  [][ \A id \in SubIds :
        /\ (PollFires(id) /\ LiveEntry(Store, PolledKey(id), now) # Null) =>
              /\ fetch'[PollFetch].pc = "done"
              /\ fetch'[PollFetch].upstream = 0
              /\ fetch'[PollFetch].result = cache[PolledKey(id)].value
        /\ (/\ PollSettles(id)
            /\ fetch[PollFetch].upstream = 0
            /\ fetch[PollFetch].error = NoErr
            /\ subscription[id].lastValue # Null
            /\ now <= ttl) =>
              events'[id] = <<>>
    ]_vars

\* C37 as amended: while an unexpired cache entry exists for a subscription's
\* URI, every poll cycle obtains the cached value without an upstream call,
\* and makes no 'update' callback as long as the entry holds the value the
\* subscription saw last.
C37_CachedPollFollowsEntry ==
  [][ \A id \in SubIds :
        /\ (PollFires(id) /\ LiveEntry(Store, PolledKey(id), now) # Null) =>
              /\ fetch'[PollFetch].pc = "done"
              /\ fetch'[PollFetch].upstream = 0
              /\ fetch'[PollFetch].result = cache[PolledKey(id)].value
        /\ (/\ PollSettles(id)
            /\ fetch[PollFetch].upstream = 0
            /\ fetch[PollFetch].error = NoErr
            /\ PolledKey(id) \in DOMAIN cache
            /\ cache[PolledKey(id)].value = subscription[id].lastValue) =>
              events'[id] = <<>>
    ]_vars

\* a poll was served from the cache with the value seen last, while another
\* caller's fetch of the same URI is still upstream
C37_Witness ==
  /\ 1 \in subscriptions
  /\ fetch[PollFetch].pc = "done"
  /\ fetch[PollFetch].upstream = 0
  /\ fetch[PollFetch].result = subscription[1].lastValue
  /\ subscription[1].lastValue # Null
  /\ fetch[OtherFetch].pc = "upstream"

----------------------------------------------------------------------------
(* The legacy Ghost service: handleApiRequest(resource, action, data,        *)
(* options, retries), which retries by calling itself with retries - 1       *)

\* retries = 3, the default of the parameter
DefaultRetries == 3

\* the largest retries a caller passes
MaxLegacyRetries == 4

\* const delay = isRateLimit ? 5000 : 1000 * (4 - retries)
RateLimitDelay == 5000

DelayStep == 1000

DelayBase == 4

\* what the Ghost client rejects with: error.response.status, or error.code
LegacyErrors ==
  { PlainError("", 429), PlainError("", 500), PlainError("", 503),
    PlainError("ECONNREFUSED", 0), PlainError("ETIMEDOUT", 0),
    PlainError("ECONNRESET", 0), PlainError("", 404), PlainError("", 422) }

\* const isRateLimit = statusCode === 429
IsRateLimit(error) == error.statusCode = 429

\* const isServerError = statusCode >= 500
IsServerError(error) == error.statusCode >= 500

\* const isNetworkError = error.code === 'ECONNREFUSED' || ... 'ETIMEDOUT'
IsNetworkError(error) == error.code \in {"ECONNREFUSED", "ETIMEDOUT"}

\* if ((isRateLimit || isServerError || isNetworkError) && retries > 0)
LegacyRetries(error, retries) ==
  /\ IsRateLimit(error) \/ IsServerError(error) \/ IsNetworkError(error)
  /\ retries > 0

\* the mutant of LegacyDelay: every retry waits as after a rate limit
LegacyDelayFlat(error, retries) == RateLimitDelay

LegacyDelay(error, retries) ==
  IF IsRateLimit(error) THEN RateLimitDelay
  ELSE DelayStep * (DelayBase - retries)

\* setTimeout(resolve, delay): a delay below 1 is run as 1
TimerDelay(delay) == IF delay < 1 THEN 1 ELSE delay

\* a caller calls handleApiRequest; the resource/action check, then the
\* first call of the API
LegacyStart(valid, retries) ==
  /\ call = NoCall
  /\ call' = IF valid
             THEN [fn |-> "handleApiRequest", pc |-> "inflight",
                   given |-> retries, retries |-> retries, calls |-> 1,
                   delays |-> <<>>, wakeAt |-> NoTime, result |-> NoErr]
             ELSE [fn |-> "handleApiRequest", pc |-> "done",
                   given |-> retries, retries |-> retries, calls |-> 0,
                   delays |-> <<>>, wakeAt |-> NoTime,
                   result |-> PlainError("", 0)]
  /\ Stateless

\* the API call returns
LegacyResolves ==
  /\ call.fn = "handleApiRequest"
  /\ call.pc = "inflight"
  /\ call' = [call EXCEPT !.pc = "done", !.result = Ok]
  /\ Stateless

\* the API call fails: the catch block up to its setTimeout, or its rethrow
LegacyRejects(error) ==
  /\ call.fn = "handleApiRequest"
  /\ call.pc = "inflight"
  /\ call' = IF LegacyRetries(error, call.retries)
             THEN LET delay == LegacyDelay(error, call.retries)
                  IN [call EXCEPT !.pc = "sleep",
                                  !.delays = Append(@, delay),
                                  !.wakeAt = now + TimerDelay(delay)]
             ELSE [call EXCEPT !.pc = "done", !.result = error]
  /\ Stateless

\* the timer fires: handleApiRequest(..., retries - 1) calls the API again
LegacyWake ==
  /\ call.fn = "handleApiRequest"
  /\ call.pc = "sleep"
  /\ now' = call.wakeAt
  /\ call' = [call EXCEPT !.pc = "inflight", !.retries = @ - 1,
                          !.calls = @ + 1, !.wakeAt = NoTime]
  /\ UNCHANGED <<cacheVars, execVars, subVars, fetch, batch>>

DoLegacyStart ==
  \E valid \in BOOLEAN, retries \in 0..MaxLegacyRetries :
    LegacyStart(valid, retries)

DoLegacyRejects == \E e \in LegacyErrors : LegacyRejects(e)

\* the API client settles every request
LegacySettles == LegacyResolves \/ DoLegacyRejects

LegacyNext == DoLegacyStart \/ LegacyResolves \/ DoLegacyRejects \/ LegacyWake

SpecLegacy ==
  /\ PureInit
  /\ [][LegacyNext]_vars
  /\ WF_vars(LegacySettles)
  /\ WF_vars(LegacyWake)

\* C38: the legacy handleApiRequest always terminates: it calls the API at
\* most retries + 1 times (4 with the default), waits 5000 ms before the retry
\* after a 429 and 1000 * (4 - retries) ms after a 5xx, ECONNREFUSED or
\* ETIMEDOUT, and rethrows at once, after one call, a failure of any other
\* kind, a 404 included.
C38_LegacyTerminates ==
  /\ [](call.fn = "handleApiRequest" =>
          /\ call.calls <= call.given + 1
          /\ call.given = DefaultRetries => call.calls <= 4)
  /\ [][ \A e \in LegacyErrors :
            LegacyRejects(e) =>
              IF call.retries > 0 /\ e.statusCode = 429
              THEN /\ call'.pc = "sleep"
                   /\ call'.wakeAt = now + 5000
              ELSE IF call.retries > 0 /\ (\/ e.statusCode >= 500
                                           \/ e.code = "ECONNREFUSED"
                                           \/ e.code = "ETIMEDOUT")
              THEN /\ call'.pc = "sleep"
                   /\ call'.delays[Len(call'.delays)]
                        = 1000 * (4 - call.retries)
              ELSE /\ call'.pc = "done"
                   /\ call'.result = e
                   /\ call'.calls = call.calls
                   /\ call.delays = <<>> => call'.calls = 1
        ]_vars
  /\ (call.fn = "handleApiRequest")
       ~> (call.fn = "handleApiRequest" /\ call.pc = "done")

\* a call with the default retries ended after four calls of the API, the
\* waits being those after a 429, a 5xx and a refused connection
C38_Witness ==
  /\ call.fn = "handleApiRequest"
  /\ call.pc = "done"
  /\ call.given = DefaultRetries
  /\ call.calls = 4
  /\ call.delays = <<5000, 2000, 3000>>
  /\ call.result = PlainError("ETIMEDOUT", 0)

====
